---- MODULE Spec2Model ----
(***************************************************************************)
(* State-machine model of the synthetic fraud-network pipeline:            *)
(*   syntheticdata.py              generate_synthetic_network              *)
(*   assign_roles_and_visualize.py load_graph, add_fraud_accomplice_edges, *)
(*                                 save_graph and the main block           *)
(* Probabilities are integers in units of 1/Unit, edge weights are in      *)
(* hundredths.  A networkx Graph is a node list, a per-node attribute      *)
(* dictionary and a per-edge attribute dictionary keyed by the ordered     *)
(* pair under which G.edges() reports the edge.                            *)
(***************************************************************************)
EXTENDS Integers, FiniteSets, Sequences, TLC

\* ---- bounds of the model ----
\* largest num_nodes / target_edges tried with the single-role distribution
MaxNodes == 3
MaxTarget == 6
\* largest num_nodes / target_edges tried with every distribution and prior
MaxLabelNodes == 2
MaxLabelTarget == 1
\* size of the graphs handed directly to add_fraud_accomplice_edges
MaxAugNodes == 3
\* largest max_accomplice_edges handed directly to add_fraud_accomplice_edges
MaxK == 2
\* number of consecutive add_fraud_accomplice_edges passes on the same graph
MaxRuns == 2

\* ---- program constants ----
SeedValue == 42
DefaultMaxAccompliceEdges == 5
\* random.uniform(0.1, 1.0), in hundredths
MinWeight == 10
MaxWeight == 100
\* probabilities are integers in units of 1/Unit (1/3 = 10, 0.1 = 3)
Unit == 30
\* the random module's generator, abstracted to a state in 0..RngMod-1
RngMod == 16
\* rng value of a generator that was never seeded by the process
Entropy == -1

Roles == <<"Fraud", "Accomplice", "Honest">>

RoleSet == {Roles[i] : i \in 1..3}

BeliefKey == [Fraud |-> "belief_fraud", Accomplice |-> "belief_accomplice", Honest |-> "belief_honest"]

AttrNames == {"true_state", "state", "belief_fraud", "belief_accomplice", "belief_honest"}

EmptyDict == [k \in {} |-> 0]

Min(a, b) == IF a < b THEN a ELSE b

Max(a, b) == IF a > b THEN a ELSE b

\* dict.get(key, default)
Get(d, k, default) == IF k \in DOMAIN d THEN d[k] ELSE default

\* d[key] = value
Put(d, k, v) == [x \in DOMAIN d \cup {k} |-> IF x = k THEN v ELSE d[x]]

DefaultInitialBelief == [Fraud |-> 10, Accomplice |-> 10, Honest |-> 10]

DefaultStateDistribution == [Fraud |-> 3, Accomplice |-> 6, Honest |-> 21]

VARIABLES
    pc,                   \* position of the running script
    num_nodes,            \* argument of generate_synthetic_network
    target_edges,         \* argument of generate_synthetic_network
    arg_initial_belief,   \* argument: {} for None, {d} for the dictionary d
    arg_state_distribution,
    initial_belief,       \* the local after the defaults are applied
    state_distribution,
    prng,                 \* the generator of the random module
    rng,                  \* its state: Entropy, or a seeded state
    nodes,                \* list(G.nodes())
    node_attr,            \* G.nodes[n]: the attribute dictionary of node n
    edges,                \* G.edges: ordered pair -> attribute dictionary
    existing_edges,       \* the lookup set of the top-up loop
    state_counts,
    idx,                  \* position of the running for loop
    written,              \* output files written so far
    max_accomplice_edges, \* argument of add_fraud_accomplice_edges
    edges_before,         \* G.edges when the current augmentation pass began
    runs,                 \* augmentation passes started
    run_no,               \* which run of the generator script this is
    first_run             \* the graph the first run of the generator saved

vars == <<pc, num_nodes, target_edges, arg_initial_belief, arg_state_distribution,
          initial_belief, state_distribution, prng, rng, nodes, node_attr, edges,
          existing_edges, state_counts, idx, written, max_accomplice_edges,
          edges_before, runs, run_no, first_run>>

\* ---- networkx.Graph ----
NodeSet == {nodes[i] : i \in 1..Len(nodes)}

HasEdge(E, u, v) == <<u, v>> \in DOMAIN E \/ <<v, u>> \in DOMAIN E

NumberOfEdges(E) == Cardinality(DOMAIN E)

\* G.add_edge(u, v, **attr): a new edge, or an update of the attributes of
\* the edge already joining u and v (attr = EmptyDict: no attribute given)
AddEdge(E, u, v, attr) ==
    LET upd(old) == [k \in DOMAIN old \cup DOMAIN attr |->
                        IF k \in DOMAIN attr THEN attr[k] ELSE old[k]]
    IN  IF <<u, v>> \in DOMAIN E THEN [E EXCEPT ![<<u, v>>] = upd(@)]
        ELSE IF <<v, u>> \in DOMAIN E THEN [E EXCEPT ![<<v, u>>] = upd(@)]
        ELSE [p \in DOMAIN E \cup {<<u, v>>} |-> IF p = <<u, v>> THEN attr ELSE E[p]]

\* ---- the random module ----
\* one step of the seeded generator
StepRng(r) == (prng.a * r + prng.c) % RngMod

\* random.seed(v): the stream that follows is a function of v alone.  Under the
\* abstract generator the stream is left unconstrained (every outcome).
Seed(v) == IF prng.kind = "abstract" THEN Entropy ELSE v % RngMod

\* Every draw below is the set of its possible <<result, next rng>> outcomes:
\* all results of the call when the stream is unconstrained, the one result
\* the stream fixes otherwise.

\* random._randbelow(n): the stream's next value scaled to 0..n-1
RandBelow(r, n) ==
    IF r = Entropy THEN {<<v, Entropy>> : v \in 0..(n - 1)}
    ELSE {<<(r * n) \div RngMod, StepRng(r)>>}

\* random.choice(seq)
Choice(r, seq) == {<<seq[o[1] + 1], o[2]>> : o \in RandBelow(r, Len(seq))}

\* random.sample(lst, 2) for a list of at least two elements: the pool
\* algorithm, the chosen slot is refilled with the last element of the pool
Sample2(r, lst) ==
    LET n == Len(lst)
    IN  UNION {
          LET pool == [lst EXCEPT ![o0[1] + 1] = lst[n]]
          IN  {<<lst[o0[1] + 1], pool[o1[1] + 1], o1[2]>> : o1 \in RandBelow(o0[2], n - 1)}
          : o0 \in RandBelow(r, n)}

\* random.uniform(0.1, 1.0) = 0.1 + 0.9 * random(); under an unconstrained
\* stream the two ends of the interval stand for its values
Uniform(r) ==
    IF r = Entropy THEN {<<w, Entropy>> : w \in {MinWeight, MaxWeight}}
    ELSE {<<MinWeight + ((MaxWeight - MinWeight) * r) \div RngMod, StepRng(r)>>}

\* running totals of the weights list of random.choices
CumWeight(dist, i) ==
    IF i = 1 THEN dist[Roles[1]]
    ELSE IF i = 2 THEN dist[Roles[1]] + dist[Roles[2]]
    ELSE dist[Roles[1]] + dist[Roles[2]] + dist[Roles[3]]

\* random.choices(Roles, weights, k=1)[0]: bisect of random() * total in the
\* running totals; an entry of weight 0 is never drawn
WeightedChoice(r, dist) ==
    IF r = Entropy THEN {<<Roles[i], Entropy>> : i \in {j \in 1..3 : dist[Roles[j]] > 0}}
    ELSE LET total == CumWeight(dist, 3)
             below == {i \in 1..2 : CumWeight(dist, i) * RngMod <= r * total}
         IN  {<<Roles[Cardinality(below) + 1], StepRng(r)>>}

\* ---- networkx.barabasi_albert_graph ----
Range(seq) == {seq[i] : i \in 1..Len(seq)}

RECURSIVE SortedSeq(_)
\* iteration order of a Python set of small non-negative integers
SortedSeq(S) ==
    IF S = {} THEN <<>>
    ELSE LET lo == CHOOSE x \in S : \A y \in S : x <= y
         IN  <<lo>> \o SortedSeq(S \ {lo})

RECURSIVE DrawUntil(_, _, _, _, _)
\* the loop of _random_subset under a seeded stream; fuel bounds the walk
DrawUntil(seq, m, r, targets, fuel) ==
    IF Cardinality(targets) >= m THEN {<<targets, r>>}
    ELSE IF fuel = 0 THEN {}
    ELSE UNION {DrawUntil(seq, m, o[2], targets \cup {o[1]}, fuel - 1) : o \in Choice(r, seq)}

\* _random_subset(seq, m, rng): m distinct elements of seq
RandomSubset(seq, m, r) ==
    IF r = Entropy
    THEN {<<T, Entropy>> : T \in {S \in SUBSET Range(seq) : Cardinality(S) = m}}
    ELSE DrawUntil(seq, m, r, {}, RngMod)

RECURSIVE BAGrow(_, _, _, _, _, _)
\* the growth loop: each new node source is joined to m distinct earlier nodes
\* drawn from repeated_nodes (every node once per unit of degree)
BAGrow(P, repeated, source, n, m, r) ==
    IF source >= n THEN {<<P, r>>}
    ELSE UNION {
          BAGrow(P \cup {<<t, source>> : t \in o[1]},
                 repeated \o SortedSeq(o[1]) \o [i \in 1..m |-> source],
                 source + 1, n, m, o[2])
          : o \in RandomSubset(repeated, m, r)}

\* barabasi_albert_graph(n, m) for 1 <= m < n, drawing from stream r: the
\* possible <<edge pairs, next rng>>.  It starts from star_graph(m) (centre 0,
\* leaves 1..m) and has m * (n - m) edges.
BarabasiAlbert(n, m, r) ==
    BAGrow({<<0, i>> : i \in 1..m},
           [i \in 1..(2 * m) |-> IF i <= m THEN 0 ELSE i - m],
           m + 1, n, m, r)

\* a generator of its own that nothing seeds
GeneratorStreamOwn(r) == Entropy

\* the stream barabasi_albert_graph(n, m) draws from when called without a
\* seed argument: the global generator of the random module
GeneratorStream(r) == r

\* ---- inputs ----
AllFraud == [Fraud |-> Unit, Accomplice |-> 0, Honest |-> 0]

\* entries 0.5, 0.5, 0.5: all keys present, sum 1.5
NotNormalised == [Fraud |-> 15, Accomplice |-> 15, Honest |-> 15]

\* no "Accomplice" key
MissingAccomplice == [Fraud |-> 15, Honest |-> 15]

ZeroTotal == [Fraud |-> 0, Accomplice |-> 0, Honest |-> 0]

StateDistributionInputs == {{}, {AllFraud}, {NotNormalised}, {MissingAccomplice}, {ZeroTotal}}

\* entries 0.5, 0.3, 0.2
Skewed == [Fraud |-> 15, Accomplice |-> 9, Honest |-> 6]

InitialBeliefInputs == {{}, {Skewed}, {NotNormalised}, {MissingAccomplice}}

GeneratedFile == "synthetic_network.graphml"

EnhancedFile == "synthetic_network_with_true_states_enhanced.graphml"

NoGraph == [nodes |-> <<>>, node_attr |-> EmptyDict, edges |-> EmptyDict]

\* the state at the call of generate_synthetic_network, its arguments aside
Fresh ==
    /\ pc = "start"
    /\ initial_belief = EmptyDict
    /\ state_distribution = EmptyDict
    /\ rng = Entropy
    /\ nodes = <<>>
    /\ node_attr = EmptyDict
    /\ edges = EmptyDict
    /\ existing_edges = {}
    /\ state_counts = EmptyDict
    /\ idx = 0
    /\ written = {}
    /\ max_accomplice_edges = DefaultMaxAccompliceEdges
    /\ edges_before = EmptyDict
    /\ runs = 0
    /\ run_no = 1
    /\ first_run = NoGraph

Arguments ==
    \/ /\ num_nodes \in 0..MaxNodes
       /\ target_edges \in (-1)..MaxTarget
       /\ arg_state_distribution = {AllFraud}
       /\ arg_initial_belief = {}
    \/ /\ num_nodes \in 2..MaxLabelNodes
       /\ target_edges \in 0..MaxLabelTarget
       /\ arg_state_distribution \in StateDistributionInputs
       /\ arg_initial_belief \in InitialBeliefInputs

Init ==
    /\ Arguments
    /\ prng = [kind |-> "abstract", a |-> 1, c |-> 1]
    /\ Fresh

\* ---- generate_synthetic_network ----
\* an argument left None takes its default
OrDefault(arg, default) == IF arg = {} THEN default ELSE CHOOSE d \in arg : TRUE

\* m = max(1, target_edges // num_nodes)
AttachmentParameter(t, n) == Max(1, t \div n)

\* the guard of barabasi_albert_graph: it raises unless 1 <= m < n
GeneratorAccepts(n, m) == m >= 1 /\ m < n

argvars == <<num_nodes, target_edges, arg_initial_belief, arg_state_distribution, prng>>

augvars == <<max_accomplice_edges, edges_before, runs>>

detvars == <<run_no, first_run>>

\* lines 23-37: defaults, seed, base graph, the lookup set and the node list.
\* The global generator advances by the base generator's draws when that is
\* the stream the base generator draws from.
BaseGraph ==
    /\ pc = "start"
    /\ num_nodes # 0
    /\ GeneratorAccepts(num_nodes, AttachmentParameter(target_edges, num_nodes))
    /\ \E o \in BarabasiAlbert(num_nodes, AttachmentParameter(target_edges, num_nodes),
                               GeneratorStream(Seed(SeedValue))) :
          /\ edges' = [p \in o[1] |-> EmptyDict]
          /\ existing_edges' = o[1]
          /\ rng' = IF GeneratorStream(Seed(SeedValue)) = Seed(SeedValue) THEN o[2]
                    ELSE Seed(SeedValue)
    /\ initial_belief' = OrDefault(arg_initial_belief, DefaultInitialBelief)
    /\ state_distribution' = OrDefault(arg_state_distribution, DefaultStateDistribution)
    /\ nodes' = [i \in 1..num_nodes |-> i - 1]
    /\ node_attr' = [v \in 0..(num_nodes - 1) |-> EmptyDict]
    /\ pc' = "topup"
    /\ UNCHANGED <<state_counts, idx, written>>
    /\ UNCHANGED <<argvars, augvars, detvars>>

\* lines 32-33 raising: ZeroDivisionError for num_nodes = 0, NetworkXError
\* when the generator refuses m and n
BaseGraphError ==
    /\ pc = "start"
    /\ IF num_nodes = 0 THEN TRUE
       ELSE ~GeneratorAccepts(num_nodes, AttachmentParameter(target_edges, num_nodes))
    /\ initial_belief' = OrDefault(arg_initial_belief, DefaultInitialBelief)
    /\ state_distribution' = OrDefault(arg_state_distribution, DefaultStateDistribution)
    /\ rng' = Seed(SeedValue)
    /\ pc' = "error"
    /\ UNCHANGED <<nodes, node_attr, edges, existing_edges, state_counts, idx, written>>
    /\ UNCHANGED <<argvars, augvars, detvars>>

\* the loop stopping one edge early
TopUpContinuesShort(E, t) == NumberOfEdges(E) < t - 1

\* the loop running one edge too far
TopUpContinuesOver(E, t) == NumberOfEdges(E) <= t

\* line 38: the condition of the top-up loop
TopUpContinues(E, t) == NumberOfEdges(E) < t

\* line 40: the pair is in the lookup set in neither orientation
Unconnected(X, n1, n2) == <<n1, n2>> \notin X /\ <<n2, n1>> \notin X

\* lines 38-42: one iteration of the top-up loop
TopUpIter ==
    /\ pc = "topup"
    /\ TopUpContinues(edges, target_edges)
    /\ \E s \in Sample2(rng, nodes) :
          IF Unconnected(existing_edges, s[1], s[2])
          THEN \E u \in Uniform(s[3]) :
                  /\ edges' = AddEdge(edges, s[1], s[2], [weight |-> u[1]])
                  /\ existing_edges' = existing_edges \cup {<<s[1], s[2]>>}
                  /\ rng' = u[2]
          ELSE /\ rng' = s[3]
               /\ UNCHANGED <<edges, existing_edges>>
    /\ UNCHANGED <<pc, initial_belief, state_distribution, nodes, node_attr,
                   state_counts, idx, written>>
    /\ UNCHANGED <<argvars, augvars, detvars>>

\* line 38 false, line 45: the loop is left and the counts start at zero
TopUpExit ==
    /\ pc = "topup"
    /\ ~TopUpContinues(edges, target_edges)
    /\ state_counts' = [r \in RoleSet |-> 0]
    /\ idx' = 1
    /\ pc' = "label"
    /\ UNCHANGED <<initial_belief, state_distribution, rng, nodes, node_attr, edges,
                   existing_edges, written>>
    /\ UNCHANGED <<argvars, augvars, detvars>>

\* lines 57-59 stop at the first key initial_belief lacks (KeyError): the
\* position in Roles of that key, 4 when none is missing
FirstMissing(belief) ==
    LET missing == {i \in 1..3 : Roles[i] \notin DOMAIN belief}
    IN  IF missing = {} THEN 4 ELSE CHOOSE i \in missing : \A j \in missing : i <= j

\* every belief field copied from the "Fraud" entry
WithBeliefsCopied(attr, ts, belief) ==
    [k \in DOMAIN attr \cup {"true_state"} \cup {BeliefKey[r] : r \in RoleSet} |->
        IF k = "true_state" THEN ts
        ELSE IF k \in {BeliefKey[r] : r \in RoleSet} THEN belief["Fraud"]
        ELSE attr[k]]

\* lines 56-59: true_state, then the belief fields up to the first missing key
WithBeliefs(attr, ts, belief) ==
    LET upto == FirstMissing(belief) - 1
        keys == {"true_state"} \cup {BeliefKey[Roles[i]] : i \in 1..upto}
    IN  [k \in DOMAIN attr \cup keys |->
            IF k = "true_state" THEN ts
            ELSE IF k \in keys THEN belief[CHOOSE r \in RoleSet : BeliefKey[r] = k]
            ELSE attr[k]]

\* line 60: the working state is drawn uniformly from the three roles
StateDraw(r) == Choice(r, Roles)

\* lines 46-61: the body of the labelling loop for the node at idx
LabelNode ==
    /\ pc = "label"
    /\ idx <= Len(nodes)
    /\ LET node == nodes[idx]
       IN  IF ~(RoleSet \subseteq DOMAIN state_distribution)
           THEN \* lines 50-52: KeyError
                /\ pc' = "error"
                /\ UNCHANGED <<rng, node_attr, state_counts, idx>>
           ELSE IF CumWeight(state_distribution, 3) <= 0
           THEN \* random.choices: ValueError, the weights total zero
                /\ pc' = "error"
                /\ UNCHANGED <<rng, node_attr, state_counts, idx>>
           ELSE \E o \in WeightedChoice(rng, state_distribution) :
                  IF FirstMissing(initial_belief) <= 3
                  THEN \* lines 57-59: KeyError after part of the node is written
                       /\ node_attr' = [node_attr EXCEPT
                                          ![node] = WithBeliefs(@, o[1], initial_belief)]
                       /\ rng' = o[2]
                       /\ pc' = "error"
                       /\ UNCHANGED <<state_counts, idx>>
                  ELSE \E c \in StateDraw(o[2]) :
                          /\ node_attr' = [node_attr EXCEPT
                                ![node] = Put(WithBeliefs(@, o[1], initial_belief),
                                              "state", c[1])]
                          /\ state_counts' = [state_counts EXCEPT ![o[1]] = @ + 1]
                          /\ rng' = c[2]
                          /\ idx' = idx + 1
                          /\ pc' = pc
    /\ UNCHANGED <<initial_belief, state_distribution, nodes, edges, existing_edges, written>>
    /\ UNCHANGED <<argvars, augvars, detvars>>

\* lines 63-88: the report (it reads only) and nx.write_graphml
Report ==
    /\ pc = "label"
    /\ idx > Len(nodes)
    /\ written' = written \cup {GeneratedFile}
    /\ pc' = "saved"
    /\ UNCHANGED <<initial_belief, state_distribution, rng, nodes, node_attr, edges,
                   existing_edges, state_counts, idx>>
    /\ UNCHANGED <<argvars, augvars, detvars>>

\* ---- assign_roles_and_visualize ----
\* nx.read_graphml names every node by the string of its GraphML id
NodeId(v) == ToString(v)

\* load_graph of the file generate_synthetic_network wrote, in a new process
\* (whose random module nothing seeds), followed by the call
\* add_fraud_accomplice_edges(G) of the main block
Load ==
    /\ pc = "saved"
    /\ nodes' = [i \in 1..Len(nodes) |-> NodeId(nodes[i])]
    /\ node_attr' = [s \in {NodeId(v) : v \in NodeSet} |->
                        node_attr[CHOOSE v \in NodeSet : NodeId(v) = s]]
    /\ edges' = [q \in {<<NodeId(p[1]), NodeId(p[2])>> : p \in DOMAIN edges} |->
                    edges[CHOOSE p \in DOMAIN edges : <<NodeId(p[1]), NodeId(p[2])>> = q]]
    /\ edges_before' = edges'
    /\ rng' = Entropy
    /\ max_accomplice_edges' = DefaultMaxAccompliceEdges
    /\ runs' = 1
    /\ idx' = 1
    /\ pc' = "augment"
    /\ UNCHANGED <<initial_belief, state_distribution, existing_edges, state_counts, written>>
    /\ UNCHANGED <<argvars, detvars>>

\* line 49 / line 51: G.nodes[n].get("true_state") == role
HasRole(attr, n, role) == Get(attr[n], "true_state", "None") = role

\* every node that is not Fraud taken for an accomplice
AccomplicesNotFraud(attr) == {n \in DOMAIN attr : ~HasRole(attr, n, "Fraud")}

\* lines 50-52: the accomplices list
Accomplices(attr) == {n \in DOMAIN attr : HasRole(attr, n, "Accomplice")}

\* a sample one short
SampleSizeShort(k, accomplices) == Min(k, Cardinality(accomplices)) - 1

\* line 54: the size of the sample
SampleSize(k, accomplices) == Min(k, Cardinality(accomplices))

\* edges kept as a list of ordered pairs, looked up in one orientation only
ConnectAllDirected(E, node, sampled) ==
    [p \in DOMAIN E \cup {<<node, a>> : a \in sampled} |->
        IF p \in DOMAIN E THEN E[p] ELSE EmptyDict]

RECURSIVE ConnectAll(_, _, _)
\* lines 56-58: an edge to every sampled accomplice not yet a neighbour
ConnectAll(E, node, sampled) ==
    IF sampled = {} THEN E
    ELSE LET a == CHOOSE x \in sampled : TRUE
         IN  ConnectAll(IF ~HasEdge(E, node, a) THEN AddEdge(E, node, a, EmptyDict) ELSE E,
                        node, sampled \ {a})

\* lines 48-58: the body of the loop for the node at idx
AugmentNode ==
    /\ pc = "augment"
    /\ idx <= Len(nodes)
    /\ LET node == nodes[idx]
           accomplices == Accomplices(node_attr)
           k == SampleSize(max_accomplice_edges, accomplices)
       IN  IF ~HasRole(node_attr, node, "Fraud")
           THEN /\ idx' = idx + 1
                /\ UNCHANGED <<pc, edges>>
           ELSE IF k < 0
           THEN \* random.sample: ValueError, the sample size is negative
                /\ pc' = "error"
                /\ UNCHANGED <<idx, edges>>
           ELSE \E sampled \in {S \in SUBSET accomplices : Cardinality(S) = k} :
                  /\ edges' = ConnectAll(edges, node, sampled)
                  /\ idx' = idx + 1
                  /\ pc' = pc
    /\ UNCHANGED <<initial_belief, state_distribution, rng, nodes, node_attr,
                   existing_edges, state_counts, written>>
    /\ UNCHANGED <<argvars, augvars, detvars>>

\* line 48 exhausted: add_fraud_accomplice_edges returns
AugmentReturn ==
    /\ pc = "augment"
    /\ idx > Len(nodes)
    /\ pc' = "augmented"
    /\ UNCHANGED <<initial_belief, state_distribution, rng, nodes, node_attr, edges,
                   existing_edges, state_counts, idx, written>>
    /\ UNCHANGED <<argvars, augvars, detvars>>

\* save_graph at the end of the main block
SaveGraph ==
    /\ pc = "augmented"
    /\ EnhancedFile \notin written
    /\ written' = written \cup {EnhancedFile}
    /\ UNCHANGED <<pc, initial_belief, state_distribution, rng, nodes, node_attr, edges,
                   existing_edges, state_counts, idx>>
    /\ UNCHANGED <<argvars, augvars, detvars>>

Next ==
    \/ BaseGraph
    \/ BaseGraphError
    \/ TopUpIter
    \/ TopUpExit
    \/ LabelNode
    \/ Report
    \/ Load
    \/ AugmentNode
    \/ AugmentReturn
    \/ SaveGraph

Spec == Init /\ [][Next]_vars

\* ---- add_fraud_accomplice_edges on a graph handed to it directly ----
\* role at distance d after role r in Roles
Rotate(r, d) == Roles[(((CHOOSE i \in 1..3 : Roles[i] = r) - 1 + d) % 3) + 1]

\* a labelled node as generate_synthetic_network leaves it
Labelled(ts, st, belief) ==
    [true_state |-> ts, state |-> st, belief_fraud |-> belief["Fraud"],
     belief_accomplice |-> belief["Accomplice"], belief_honest |-> belief["Honest"]]

\* any simple labelled graph of 1..MaxAugNodes nodes (every state differing
\* from the node's true_state) and any max_accomplice_edges in -1..MaxK, at
\* the call of add_fraud_accomplice_edges
InitAug ==
    /\ \E n \in 1..MaxAugNodes :
          /\ num_nodes = n
          /\ nodes = [i \in 1..n |-> NodeId(i - 1)]
          /\ \E ts \in [0..(n - 1) -> RoleSet], d \in {1} :
                node_attr = [s \in {NodeId(v) : v \in 0..(n - 1)} |->
                                LET v == CHOOSE w \in 0..(n - 1) : NodeId(w) = s
                                IN  Labelled(ts[v], Rotate(ts[v], d), DefaultInitialBelief)]
          /\ \E P \in SUBSET {<<u, v>> \in (0..(n - 1)) \X (0..(n - 1)) : u < v} :
                edges = [q \in {<<NodeId(p[1]), NodeId(p[2])>> : p \in P} |-> EmptyDict]
    /\ max_accomplice_edges \in (-1)..MaxK
    /\ edges_before = edges
    /\ target_edges = 0
    /\ arg_initial_belief = {}
    /\ arg_state_distribution = {}
    /\ initial_belief = DefaultInitialBelief
    /\ state_distribution = DefaultStateDistribution
    /\ prng = [kind |-> "abstract", a |-> 1, c |-> 1]
    /\ rng = Entropy
    /\ existing_edges = {}
    /\ state_counts = EmptyDict
    /\ written = {}
    /\ idx = 1
    /\ runs = 1
    /\ run_no = 1
    /\ first_run = NoGraph
    /\ pc = "augment"

\* add_fraud_accomplice_edges called once more on the graph it returned
AugmentAgain ==
    /\ pc = "augmented"
    /\ runs < MaxRuns
    /\ runs' = runs + 1
    /\ edges_before' = edges
    /\ idx' = 1
    /\ pc' = "augment"
    /\ UNCHANGED <<initial_belief, state_distribution, rng, nodes, node_attr, edges,
                   existing_edges, state_counts, written, max_accomplice_edges>>
    /\ UNCHANGED <<argvars, detvars>>

NextAug ==
    \/ AugmentNode
    \/ AugmentReturn
    \/ AugmentAgain

SpecAug == InitAug /\ [][NextAug]_vars

\* ---- two runs of the generator script under a seeded generator ----
\* the generator is any of a family of full-period congruential generators
Generators == {[kind |-> "seeded", a |-> a, c |-> c] : a \in {1, 5, 13}, c \in {3, 7}}

InitDet ==
    /\ Arguments
    /\ prng \in Generators
    /\ Fresh

\* the script is started a second time with the same arguments, in a new process
SecondRun ==
    /\ pc = "saved"
    /\ run_no = 1
    /\ first_run' = [nodes |-> nodes, node_attr |-> node_attr, edges |-> edges]
    /\ run_no' = 2
    /\ pc' = "start"
    /\ initial_belief' = EmptyDict
    /\ state_distribution' = EmptyDict
    /\ rng' = Entropy
    /\ nodes' = <<>>
    /\ node_attr' = EmptyDict
    /\ edges' = EmptyDict
    /\ existing_edges' = {}
    /\ state_counts' = EmptyDict
    /\ idx' = 0
    /\ UNCHANGED <<written>>
    /\ UNCHANGED <<argvars, augvars>>

NextDet ==
    \/ Next
    \/ SecondRun

SpecDet == InitDet /\ [][NextDet]_vars

\* ---- properties ----
\* at most one edge per unordered pair of nodes, and no self-loop
SimpleGraph(E) ==
    \A p \in DOMAIN E :
        /\ p[1] \in NodeSet /\ p[2] \in NodeSet
        /\ p[1] # p[2]
        /\ <<p[2], p[1]>> \notin DOMAIN E

DistinctNodes == \A i, j \in 1..Len(nodes) : nodes[i] = nodes[j] => i = j

ValidSizes == num_nodes >= 2 /\ target_edges >= 0

\* C1: when generate_synthetic_network completes on num_nodes >= 2 and
\* target_edges >= 0, the graph has exactly num_nodes nodes, at least
\* target_edges edges, at most one edge per unordered pair and no self-loop
C1_GeneratedGraphShape ==
    (pc = "saved" /\ ValidSizes) =>
        /\ Len(nodes) = num_nodes
        /\ DistinctNodes
        /\ NumberOfEdges(edges) >= target_edges
        /\ SimpleGraph(edges)

\* C1 witness: a completed run whose top-up loop added weighted edges up to
\* the target, and one whose base graph alone exceeds it
C1_Witness ==
    /\ pc = "saved" /\ ValidSizes
    /\ num_nodes = 3 /\ target_edges = 3
    /\ \E p \in DOMAIN edges : "weight" \in DOMAIN edges[p]
    /\ NumberOfEdges(edges) = target_edges

\* C2: the top-up loop always terminates: whenever the loop is to run another
\* iteration (the edge count is below target_edges), some pair of distinct
\* nodes is still unconnected, so that an iteration can add an edge
C2_TopUpTerminates ==
    (pc = "topup" /\ TopUpContinues(edges, target_edges)) =>
        \E u, v \in NodeSet : u # v /\ Unconnected(existing_edges, u, v)

\* C3: with num_nodes < 2 or target_edges < 0 the call ends in an error
\* before any work: no graph is built, no node is labelled, no file written
C3_InvalidSizesRejected ==
    (num_nodes < 2 \/ target_edges < 0) =>
        /\ pc \in {"start", "error"}
        /\ nodes = <<>>
        /\ written = {}

\* the configured dictionary has the three keys and sums to 1
Normalised(arg, default) ==
    LET d == OrDefault(arg, default)
    IN  /\ RoleSet \subseteq DOMAIN d
        /\ CumWeight(d, 3) = Unit

\* C4: with a state_distribution or initial_belief that lacks a key or does
\* not sum to 1 the call ends in an error before the topology is generated:
\* no graph is built and no node is labelled
C4_InvalidDistributionRejected ==
    ~(/\ Normalised(arg_state_distribution, DefaultStateDistribution)
      /\ Normalised(arg_initial_belief, DefaultInitialBelief)) =>
        /\ pc \in {"start", "error"}
        /\ nodes = <<>>
        /\ written = {}

AccompliceSet == {n \in NodeSet : HasRole(node_attr, n, "Accomplice")}

\* neighbours of f among the accomplices in E
AccompliceNeighbours(E, f) == {a \in AccompliceSet : HasEdge(E, f, a)}

FraudNodes == {n \in NodeSet : HasRole(node_attr, n, "Fraud")}

\* C5 as stated: after a pass with max_accomplice_edges = k every Fraud node
\* has at least min(k, number of Accomplice nodes) edges to Accomplice nodes
\* that did not exist before the pass, and the graph is still simple
C5_NewAccompliceEdges ==
    pc = "augmented" =>
        /\ \A f \in FraudNodes :
              Cardinality(AccompliceNeighbours(edges, f)
                          \ AccompliceNeighbours(edges_before, f))
                 >= Min(max_accomplice_edges, Cardinality(AccompliceSet))
        /\ SimpleGraph(edges)

\* C5 amended: after a pass with max_accomplice_edges = k every Fraud node
\* has at least min(k, number of Accomplice nodes) edges to Accomplice nodes,
\* counting those that existed before the pass, and the graph is still simple
C5_AccompliceEdges ==
    pc = "augmented" =>
        /\ \A f \in FraudNodes :
              Cardinality(AccompliceNeighbours(edges, f))
                 >= Min(max_accomplice_edges, Cardinality(AccompliceSet))
        /\ SimpleGraph(edges)

\* C5 witness: a finished pass that added an edge for a Fraud node which was
\* already joined to an Accomplice node before the pass
C5_Witness ==
    /\ pc = "augmented"
    /\ max_accomplice_edges >= 1
    /\ \E f \in FraudNodes :
          /\ AccompliceNeighbours(edges_before, f) # {}
          /\ AccompliceNeighbours(edges, f) # AccompliceNeighbours(edges_before, f)

\* C6: over any number of passes the edge set only grows: every step keeps
\* each edge (with its attributes), never lowers the edge count and keeps
\* the graph simple
C6_EdgesOnlyGrow ==
    [][/\ \A p \in DOMAIN edges : p \in DOMAIN edges' /\ edges'[p] = edges[p]
       /\ NumberOfEdges(edges') >= NumberOfEdges(edges)
       /\ SimpleGraph(edges) => SimpleGraph(edges')]_vars

\* C6 witness: a second pass on the same graph added an edge where the graph
\* already had an edge stored from the Accomplice to the Fraud node
C6_Witness ==
    /\ pc = "augmented"
    /\ runs = 2
    /\ DOMAIN edges # DOMAIN edges_before
    /\ \E p \in DOMAIN edges_before :
          HasRole(node_attr, p[1], "Accomplice") /\ HasRole(node_attr, p[2], "Fraud")

Snapshot == [nodes |-> nodes, node_attr |-> node_attr, edges |-> edges]

\* C7: two runs of the generator with the same arguments (and the seed the
\* code fixes) save identical graphs: same nodes, same edges with the same
\* weights, same attributes on every node
C7_SameSeedSameGraph ==
    (pc = "saved" /\ run_no = 2) => Snapshot = first_run

\* C7 witness: a second run completed on a graph of three nodes whose node 2
\* was attached by a draw of the base generator, with a top-up edge added
C7_Witness ==
    /\ pc = "saved" /\ run_no = 2
    /\ Len(nodes) >= 3
    /\ \E p \in DOMAIN edges : "weight" \in DOMAIN edges[p]

LabellingDone == (pc = "label" /\ idx > Len(nodes)) \/ pc = "saved"

\* C8: once the labelling loop has completed every node carries the five
\* attributes, true_state and state are roles, and the three belief fields
\* are the entries of initial_belief, the same on every node
C8_AllNodesLabelled ==
    LabellingDone =>
        \A n \in NodeSet :
            /\ DOMAIN node_attr[n] = AttrNames
            /\ node_attr[n]["true_state"] \in RoleSet
            /\ node_attr[n]["state"] \in RoleSet
            /\ \A r \in RoleSet : node_attr[n][BeliefKey[r]] = initial_belief[r]

\* C8 witness: labelling completed with a prior of three different entries,
\* two nodes of different true_state, and a node whose state is not its
\* true_state
C8_Witness ==
    /\ LabellingDone
    /\ initial_belief = Skewed
    /\ \E a, b \in NodeSet :
          /\ node_attr[a]["true_state"] # node_attr[b]["true_state"]
          /\ node_attr[a]["state"] # node_attr[a]["true_state"]

\* edge count of barabasi_albert_graph(n, m)
BaseEdgeCount(n, m) == m * (n - m)

SingleRoleRun ==
    /\ state_distribution = AllFraud
    /\ num_nodes > 0
    /\ target_edges >= BaseEdgeCount(num_nodes, AttachmentParameter(target_edges, num_nodes))

\* C9: with all weight on Fraud and target_edges at least the base edge count,
\* generation labels every node Fraud and ends with exactly target_edges
\* edges, and the augmentation pass that follows adds no edge: the graph
\* stays simple with exactly target_edges edges
C9_SingleRoleScenario ==
    (SingleRoleRun /\ pc \in {"saved", "augment", "augmented"}) =>
        /\ \A n \in NodeSet : HasRole(node_attr, n, "Fraud")
        /\ NumberOfEdges(edges) = target_edges
        /\ SimpleGraph(edges)
        /\ pc # "saved" => edges = edges_before

\* C9 witness: the augmentation pass finished on an all-Fraud graph whose
\* top-up loop had added edges
C9_Witness ==
    /\ SingleRoleRun
    /\ pc = "augmented"
    /\ num_nodes = 3 /\ target_edges = 3
    /\ \E p \in DOMAIN edges : "weight" \in DOMAIN edges[p]

\* C10: a step of the pass adds only edges from the Fraud node of its
\* iteration to Accomplice nodes, at most max_accomplice_edges of them (for
\* max_accomplice_edges >= 0), and leaves the nodes and their attributes alone
C10_OnlyFraudAccompliceEdges ==
    [][pc = "augment" =>
        /\ nodes' = nodes
        /\ node_attr' = node_attr
        /\ \A p \in DOMAIN edges' \ DOMAIN edges :
              /\ p[1] = nodes[idx]
              /\ p[1] # p[2]
              /\ HasRole(node_attr, p[1], "Fraud")
              /\ HasRole(node_attr, p[2], "Accomplice")
        /\ max_accomplice_edges >= 0 =>
              Cardinality(DOMAIN edges' \ DOMAIN edges) <= max_accomplice_edges]_vars

\* C10 witness: a pass has added an edge in a graph that also holds an Honest
\* node
C10_Witness ==
    /\ pc = "augment"
    /\ max_accomplice_edges >= 1
    /\ DOMAIN edges # DOMAIN edges_before
    /\ \E h \in NodeSet : HasRole(node_attr, h, "Honest")

====
